---- MODULE Spec2Model ----
(***************************************************************************)
(* Batch inference client of Happy-Typeless: AIAnalyzer.analyze drives     *)
(* AIClient.analyze_batch over a list of transcriptions, each handled by   *)
(* one coroutine (_analyze_one) under a shared asyncio.Semaphore, with a   *)
(* result cache (AICache), a spend ceiling and a provider fail-over chain. *)
(*                                                                         *)
(* A coroutine is split into steps at its suspension points: the start of  *)
(* the task, the acquisition of a slot, and each provider call attempt.    *)
(* Code between two suspension points is one step.  Transcription ids are  *)
(* unique (they are the keys of the imported records), so entry i carries  *)
(* id i.  An interrupt cancels gather and with it every coroutine that has *)
(* not returned; file writes may fail.                                     *)
(*                                                                         *)
(* Money is counted in units of 1e-7 CNY: the rates of PRICING_TABLE are   *)
(* written in tenths of a CNY per 1M tokens, so tokens * rate is the call  *)
(* cost * 1e7 and the arithmetic stays in the integers.                    *)
(***************************************************************************)
EXTENDS Integers, Sequences, FiniteSets, TLC

\* ------------------------------------------------------------------ bounds
NumEntries == 2
MaxConc == 2

Entries == 1..NumEntries

\* --------------------------------------------------------- program constants
MaxBatch == 41      \* transcriptions handed to one client over its long batches
SaveEvery == 20
MaxAttempts == 3
DefaultRate == 10

None == [id |-> 0, by |-> "None"]
NoUsage == << >>
EmptyStore == [i \in Entries |-> None]
\* the cache file: absent, unparsable, or a store holding `analyses`
NoFile == [st |-> "nofile", analyses |-> EmptyStore]
Corrupt == [st |-> "corrupt", analyses |-> EmptyStore]

\* ModelConfig values (provider kind, model name) used by the runs
ZhipuFlash == [provider |-> "zhipu", model_name |-> "glm-4-flash"]
ZhipuAir == [provider |-> "zhipu", model_name |-> "glm-4-air"]
DeepseekV3 == [provider |-> "deepseek", model_name |-> "deepseek-v3"]

\* variant: the incremental save comes one entry late
CheckpointLate(n) == n % (SaveEvery + 1) = 0

\* client.py line 141: the count of new entries is a multiple of 20
Checkpoint(n) == n % SaveEvery = 0

\* provider chains [primary] + fallbacks handed to AIClient
Chains == { <<ZhipuFlash, DeepseekV3>>, <<ZhipuFlash, ZhipuAir>> }

\* budget ceilings (max_cost_cny) in 1e-7 CNY: 0, 0.0025 and 10.0
Ceilings == {0, 25000, 100000000}

\* token usages a completion may report: (prompt_tokens, completion_tokens)
Usages == { <<1000, 1000>>, <<100, 10>> }

\* outcomes of one attempt of _call_api's body
OkOutcomes == { [tag |-> "ok", usage |-> u] : u \in Usages \cup {NoUsage} }
Transient == [tag |-> "transient", usage |-> NoUsage]
Error == [tag |-> "error", usage |-> NoUsage]
Outcomes == OkOutcomes \cup {Transient, Error}

\* outcomes of one write of a file: written, open() raised, raised after open(.., "w")
SaveOutcomes == {"ok", "oserror", "truncated"}

\* ------------------------------------------------------------ pure helpers
RECURSIVE ClientKeys(_)
\* keys of `_clients` in iteration order: one per provider kind, first insertion first
ClientKeys(ch) ==
    IF ch = << >> THEN << >>
    ELSE LET front == ClientKeys(SubSeq(ch, 1, Len(ch) - 1))
             kind == ch[Len(ch)].provider
         IN IF \E j \in 1..Len(front) : front[j] = kind THEN front ELSE Append(front, kind)

\* `_configs[kind]`: the dict comprehension keeps the last configuration of a kind
ConfigOf(ch, kind) ==
    ch[CHOOSE j \in 1..Len(ch) :
          /\ ch[j].provider = kind
          /\ \A m \in (j + 1)..Len(ch) : ch[m].provider # kind]

\* PRICING_TABLE.get(provider, {"input": 1.0, "output": 1.0}), in tenths
PricingTable(kind) ==
    CASE kind = "zhipu" -> [input |-> 5, output |-> 20]
      [] kind = "deepseek" -> [input |-> 20, output |-> 30]
      [] OTHER -> [input |-> DefaultRate, output |-> DefaultRate]

\* MODEL_PRICING, in tenths, for the models of the configurations above
ModelPricing(model) ==
    CASE model = "glm-4-flash" -> [input |-> 0, output |-> 0]
      [] model = "glm-4-air" -> [input |-> 5, output |-> 5]
      [] model = "deepseek-v3" -> [input |-> 20, output |-> 30]
      [] OTHER -> [input |-> DefaultRate, output |-> DefaultRate]
ModelListed(model) == model \in {"glm-4-flash", "glm-4-air", "deepseek-v3"}
\* the provider kinds PRICING_TABLE lists among those in use
ProviderListed(kind) == kind \in {"zhipu", "deepseek"}

\* variant: completion tokens priced at the input rate
CalcCostOneRate(kind, usage) ==
    (usage[1] + usage[2]) * PricingTable(kind).input

\* AIClient._calc_cost
CalcCost(kind, usage) ==
    usage[1] * PricingTable(kind).input + usage[2] * PricingTable(kind).output

\* variant: the ceiling itself still counts as within budget
ExceededBudgetStrict(cost, ceiling) == cost > ceiling

\* AIClient._exceeded_budget
ExceededBudget(cost, ceiling) == cost >= ceiling

\* variant: the lookup never finds an entry
CacheGetMiss(c, id) == None

\* AICache.get / AICache.set on the in-memory analyses
CacheGet(c, id) == c[id]

\* variant: set writes back a stale copy of the map, without the other ids
CacheSetStale(c, id, r) == [j \in Entries |-> IF j = id THEN r ELSE None]

CacheSet(c, id, r) == [c EXCEPT ![id] = r]

\* the AITranscriptionAnalysis a provider returns for a transcription
Analysis(i, cfg) == [id |-> i, by |-> cfg.model_name]
\* an analysis stored by an earlier run
Earlier(i) == [id |-> i, by |-> "earlier"]

\* variant: save() returns without writing
ApplySaveNoWrite(file, mem, s) == file

\* AICache.save: the file after one write of the in-memory store
ApplySave(file, mem, s) ==
    CASE s = "ok" -> [st |-> "file", analyses |-> mem]
      [] s = "oserror" -> file
      [] OTHER -> Corrupt

\* variant: the constructor ignores what the file holds
LoadEmpty(file) == EmptyStore

\* AICache._load: the analyses of a store constructed on the file (a missing
\* file gives a fresh empty store; a corrupt one makes the constructor raise)
Load(file) == file.analyses

\* round(total_cost, 4): to the nearest 1e-4 CNY (1000 units), ties to even
Round4(c) ==
    LET q == c \div 1000
        r == c % 1000
    IN IF r < 500 THEN q * 1000
       ELSE IF r > 500 THEN (q + 1) * 1000
       ELSE IF q % 2 = 0 THEN q * 1000 ELSE (q + 1) * 1000

\* variant: results collected as the coroutines complete (as_completed)
GatherByCompletion(rets, order) ==
    [j \in Entries |-> IF j <= Len(order) THEN rets[order[j]] ELSE None]

\* asyncio.gather: the list of the children's return values, by position
GatherResults(rets, order) == [j \in Entries |-> rets[j]]

\* variant: a failed entry is kept in the dict with a marker value
BuildResultMapMarked(list) ==
    [id \in Entries |-> IF list[id] = None THEN [id |-> id, by |-> "error"] ELSE list[id]]

\* AIAnalyzer.analyze: zip(transcriptions, results_list), None results left out
BuildResultMap(list) == [id \in Entries |-> list[id]]

\* deterministic provider behaviours of one transcription; "free" leaves the
\* outcome of every attempt open
Profiles == {"ok", "nousage", "fallback", "flaky", "down"}
Respond(profile, k, a) ==
    CASE profile = "ok" -> [tag |-> "ok", usage |-> <<1000, 1000>>]
      [] profile = "nousage" -> [tag |-> "ok", usage |-> NoUsage]
      [] profile = "fallback" ->
            IF k = 1 THEN Error ELSE [tag |-> "ok", usage |-> <<100, 10>>]
      [] profile = "flaky" ->
            IF a = 1 THEN Transient ELSE [tag |-> "ok", usage |-> <<1000, 1000>>]
      [] OTHER -> IF k = 1 THEN Transient ELSE Error
Allowed(profile, k, a) ==
    IF profile = "free" THEN Outcomes ELSE {Respond(profile, k, a)}

\* ------------------------------------------------- the cache file as JSON
\* AITranscriptionAnalysis values, by the kinds of field the model has:
\* score (float, in tenths), label (Literal), severity (Literal | None, None
\* written << >>), topics (list[str]), has_profanity (bool),
\* hesitation_count (int)
Labels == {"positive", "neutral", "negative"}
Severities == {"mild", "moderate", "severe"}
Neutral ==
    [score |-> 0, label |-> "neutral", severity |-> << >>, topics |-> << >>,
     has_profanity |-> FALSE, hesitation_count |-> 0]
Angry ==
    [score |-> -10, label |-> "negative", severity |-> <<"severe">>,
     topics |-> <<"work", "null">>, has_profanity |-> TRUE, hesitation_count |-> 2]
Glad ==
    [score |-> 5, label |-> "positive", severity |-> << >>, topics |-> <<"1.0">>,
     has_profanity |-> FALSE, hesitation_count |-> 1]
Results == {Neutral, Angry, Glad}

\* a JSON value as json.dump writes it: number, string, null, true, false or
\* array of strings
Json(kind, text, items) == [kind |-> kind, text |-> text, items |-> items]
JsonAbsent == Json("absent", "", << >>)

\* float.__repr__ and int.__repr__, the number tokens json.dump writes
Floats == {-10, 0, 5, 10}
Ints == {0, 1, 2}
FloatRepr(f) ==
    CASE f = -10 -> "-1.0" [] f = 0 -> "0.0" [] f = 5 -> "0.5" [] f = 10 -> "1.0"
      [] OTHER -> "NaN"
IntRepr(n) ==
    CASE n = 0 -> "0" [] n = 1 -> "1" [] n = 2 -> "2" [] OTHER -> "-1"

\* variant: an unset optional field is written as the text None
DumpOptionalAsText(o) ==
    IF o = << >> THEN Json("string", "None", << >>) ELSE Json("string", o[1], << >>)

\* model_dump(mode="json") of one field, then json.dump
DumpFloat(f) == Json("number", FloatRepr(f), << >>)
DumpInt(n) == Json("number", IntRepr(n), << >>)
DumpStr(t) == Json("string", t, << >>)
DumpBool(b) == Json(IF b THEN "true" ELSE "false", "", << >>)
DumpList(l) == Json("array", "", l)
DumpOptional(o) ==
    IF o = << >> THEN Json("null", "", << >>) ELSE Json("string", o[1], << >>)

DumpAnalysis(a) ==
    [score |-> DumpFloat(a.score), label |-> DumpStr(a.label),
     severity |-> DumpOptional(a.severity), topics |-> DumpList(a.topics),
     has_profanity |-> DumpBool(a.has_profanity),
     hesitation_count |-> DumpInt(a.hesitation_count)]

\* AIAnalysisCache.model_dump(mode="json") written by json.dump
ModelDump(data) ==
    [version |-> DumpStr(data.version), model |-> DumpStr(data.model),
     provider |-> DumpStr(data.provider),
     analyses |-> [id \in Entries |->
                     IF data.analyses[id] = None THEN JsonAbsent
                     ELSE DumpAnalysis(data.analyses[id])]]

\* json.load of a number token: int without a fraction part, else float
IsIntToken(j) == j.kind = "number" /\ \E n \in Ints : IntRepr(n) = j.text
IsFloatToken(j) == j.kind = "number" /\ \E f \in Floats : FloatRepr(f) = j.text
TokenInt(j) == CHOOSE n \in Ints : IntRepr(n) = j.text
TokenFloat(j) == CHOOSE f \in Floats : FloatRepr(f) = j.text

\* pydantic validation of one field of AIAnalysisCache(**raw): a float field
\* takes a float or an int, an int field an int or a float without fraction
ValidFloat(j) == IsFloatToken(j) \/ IsIntToken(j)
ValidateFloat(j) == IF IsFloatToken(j) THEN TokenFloat(j) ELSE 10 * TokenInt(j)
ValidInt(j) == IsIntToken(j) \/ (IsFloatToken(j) /\ TokenFloat(j) % 10 = 0)
ValidateInt(j) == IF IsIntToken(j) THEN TokenInt(j) ELSE TokenFloat(j) \div 10
ValidLiteral(j, allowed) == j.kind = "string" /\ j.text \in allowed
ValidOptional(j, allowed) == j.kind = "null" \/ ValidLiteral(j, allowed)
ValidateOptional(j) == IF j.kind = "null" THEN << >> ELSE << j.text >>
ValidBool(j) == j.kind \in {"true", "false"}
ValidList(j) == j.kind = "array"

ValidAnalysis(j) ==
    /\ ValidFloat(j.score) /\ ValidLiteral(j.label, Labels)
    /\ ValidOptional(j.severity, Severities) /\ ValidList(j.topics)
    /\ ValidBool(j.has_profanity) /\ ValidInt(j.hesitation_count)
ValidateAnalysis(j) ==
    [score |-> ValidateFloat(j.score), label |-> j.label.text,
     severity |-> ValidateOptional(j.severity), topics |-> j.topics.items,
     has_profanity |-> (j.has_profanity.kind = "true"),
     hesitation_count |-> ValidateInt(j.hesitation_count)]

\* AIAnalysisCache(**raw): raises unless every field validates
ValidDocument(doc) ==
    /\ doc.version.kind = "string" /\ doc.model.kind = "string"
    /\ doc.provider.kind = "string"
    /\ \A id \in Entries : doc.analyses[id] = JsonAbsent \/ ValidAnalysis(doc.analyses[id])
ValidateDocument(doc) ==
    [version |-> doc.version.text, model |-> doc.model.text,
     provider |-> doc.provider.text,
     analyses |-> [id \in Entries |->
                     IF doc.analyses[id] = JsonAbsent THEN None
                     ELSE ValidateAnalysis(doc.analyses[id])]]

\* variant: the fresh store does not record what it is built for
FreshDataUnlabelled(model, provider) ==
    [version |-> "1.0", model |-> "", provider |-> "", analyses |-> EmptyStore]

\* the AIAnalysisCache a constructor makes when the file does not exist
FreshData(model, provider) ==
    [version |-> "1.0", model |-> model, provider |-> provider, analyses |-> EmptyStore]
NoCache == [model |-> "none", provider |-> "none", data |-> FreshData("none", "none")]
NoCacheFile == [st |-> "nofile"]
CorruptCacheFile == [st |-> "corrupt"]

\* variant: the warning is never given
ModelChangedNever(recorded, current) == FALSE

\* AICache._load, line 38: the condition of the warning
ModelChanged(recorded, current) == recorded # current

\* ------------------------------------------------------------------- state
VARIABLES
    chain,        \* AIClient._providers
    limit,        \* the concurrency the semaphore was built with
    maxCost,      \* AIClient._max_cost
    tsBad,        \* transcriptions whose timestamp datetime.fromtimestamp rejects
    scenario,     \* provider behaviour per transcription
    file0,        \* the cache file as the analyzer's constructor left it
    faulty,       \* whether writes of the two files may fail
    cache,        \* AICache._data.analyses
    disk,         \* the cache file
    costLog,      \* the cost log file
    pc,           \* where each coroutine of _analyze_one stands
    kidx,         \* position in _clients.items() of the provider being called
    attempt,      \* attempt number of the tenacity retry around _call_api
    ret,          \* value returned by each coroutine
    used,         \* token usage reported to each coroutine's successful call
    completed,    \* the coroutines that returned, in completion order
    sem,          \* free slots of AIClient._semaphore
    total_cost, total_tokens, new_entries, cache_hits, failed_count,
    phase,        \* of AIAnalyzer.analyze: idle, running, returned, raised
    exc,          \* what analyze raised
    out,          \* the dict analyze returned
    io,           \* outcomes of the writes made on the way out of analyze
    run,          \* first run, or which kind of later run
    prev,         \* outcome of the first run
    store,        \* an AICache object: _model, _provider, _data
    cfile,        \* the JSON document at the AICache's path
    warned,       \* whether the AICache's constructor logged the model warning
    saved,        \* the analyses the AICache held at its last save()
    cstep,        \* last operation on the AICache
    todo,         \* transcriptions of a long batch not yet resolved
    kept,         \* entries the successful calls of long batches set in the store
    filed         \* how many of those entries the cache file holds

vars == << chain, limit, maxCost, tsBad, scenario, file0, faulty, cache, disk, costLog,
           pc, kidx, attempt, ret, used, completed, sem,
           total_cost, total_tokens, new_entries, cache_hits, failed_count,
           phase, exc, out, io, run, prev, store, cfile, warned, saved, cstep,
           todo, kept, filed >>

storevars == << store, cfile, warned, saved, cstep >>
tally == << todo, kept, filed >>
inputs == << chain, limit, maxCost, tsBad, scenario, file0, faulty >>
counters == << total_cost, total_tokens, new_entries, cache_hits, failed_count >>

Keys == ClientKeys(chain)
\* outcomes a write of the cache file / of the cost log can have
CacheWrites == IF faulty THEN SaveOutcomes ELSE {"ok"}
LogWrites == IF faulty THEN {"ok", "oserror"} ELSE {"ok"}
Returned == {"hit", "skipped", "served", "failed"}
Holding == {"holding", "calling"}
Holders == {i \in Entries : pc[i] \in Holding}
NoPrev ==
    [out |-> EmptyStore, limit |-> 0, skipped |-> FALSE, exc |-> "none",
     got |-> EmptyStore, stats |-> <<0, 0, 0, 0>>, file |-> NoFile, log |-> << >>]
NoWrites == [handler |-> "none", cache |-> "none", log |-> "none"]

\* cache files found at construction: none, or one holding transcription 1
InitialFiles ==
    { NoFile,
      [st |-> "file", analyses |-> [i \in Entries |-> IF i = 1 THEN Earlier(i) ELSE None]] }

\* AIAnalyzer.__init__ (force_refresh = False): AICache._load, AIClient.__init__
Constructed ==
    /\ cache = Load(file0)
    /\ disk = file0
    /\ costLog = << >>
    /\ pc = [i \in Entries |-> "idle"]
    /\ kidx = [i \in Entries |-> 0]
    /\ attempt = [i \in Entries |-> 0]
    /\ ret = [i \in Entries |-> None]
    /\ used = [i \in Entries |-> NoUsage]
    /\ completed = << >>
    /\ sem = limit
    /\ total_cost = 0 /\ total_tokens = 0 /\ new_entries = 0
    /\ cache_hits = 0 /\ failed_count = 0
    /\ todo = 0 /\ kept = 0 /\ filed = 0
    /\ phase = "idle" /\ exc = "none" /\ out = EmptyStore /\ io = NoWrites
    /\ run = "first" /\ prev = NoPrev
    /\ store = NoCache /\ warned = FALSE
    /\ saved = EmptyStore /\ cstep = "none"

Init ==
    /\ chain \in Chains
    /\ limit \in 1..MaxConc
    /\ maxCost \in Ceilings
    /\ tsBad \in { {}, {NumEntries} }
    /\ scenario = [i \in Entries |-> "free"]
    /\ file0 \in InitialFiles
    /\ faulty = TRUE
    /\ cfile = NoCacheFile
    /\ Constructed

\* AIAnalyzer.analyze -> AIClient.analyze_batch -> asyncio.gather creates the tasks
AnalyzeStart ==
    /\ phase = "idle"
    /\ phase' = "running"
    /\ pc' = [i \in Entries |-> "new"]
    /\ UNCHANGED << inputs, storevars, tally, cache, disk, costLog, kidx, attempt, ret, used, completed,
                    sem, counters, exc, out, io, run, prev >>

\* variant: the increment of cache_hits is lost
StartUncounted(i) ==
    /\ phase = "running" /\ pc[i] = "new"
    /\ LET cached == CacheGet(cache, i) IN
         IF cached # None
         THEN /\ ret' = [ret EXCEPT ![i] = cached]
              /\ pc' = [pc EXCEPT ![i] = "hit"]
              /\ completed' = Append(completed, i)
         ELSE /\ pc' = [pc EXCEPT ![i] = "acquire"]
              /\ UNCHANGED << ret, completed >>
    /\ UNCHANGED << inputs, storevars, tally, cache, disk, costLog, kidx, attempt, used, sem,
                    counters, phase, exc, out, io, run, prev >>

\* _analyze_one, lines 109-112: cache lookup
Start(i) ==
    /\ phase = "running" /\ pc[i] = "new"
    /\ LET cached == CacheGet(cache, i) IN
         IF cached # None
         THEN /\ cache_hits' = cache_hits + 1
              /\ ret' = [ret EXCEPT ![i] = cached]
              /\ pc' = [pc EXCEPT ![i] = "hit"]
              /\ completed' = Append(completed, i)
         ELSE /\ pc' = [pc EXCEPT ![i] = "acquire"]
              /\ UNCHANGED << cache_hits, ret, completed >>
    /\ UNCHANGED << inputs, storevars, tally, cache, disk, costLog, kidx, attempt, used, sem,
                    total_cost, total_tokens, new_entries, failed_count,
                    phase, exc, out, io, run, prev >>

\* variant: the semaphore never blocks
SemFreeAlways(s) == TRUE

\* asyncio.Semaphore: a slot can be taken while one is free
SemFree(s) == s > 0

\* variant: leaving the block does not give the slot back
ReleaseLeak(s) == s

\* asyncio.Semaphore.release, on leaving `async with self._semaphore`
Release(s) == s + 1

RECURSIVE ReleaseAll(_, _)
\* n coroutines leave their `async with self._semaphore` block
ReleaseAll(s, n) == IF n = 0 THEN s ELSE ReleaseAll(Release(s), n - 1)

\* _analyze_one, line 114: async with self._semaphore
Acquire(i) ==
    /\ phase = "running" /\ pc[i] = "acquire"
    /\ SemFree(sem)
    /\ sem' = sem - 1
    /\ pc' = [pc EXCEPT ![i] = "holding"]
    /\ UNCHANGED << inputs, storevars, tally, cache, disk, costLog, kidx, attempt, ret, used, completed,
                    counters, phase, exc, out, io, run, prev >>

\* variant: a skipped entry is counted as a failure
BudgetSkipCounted(i) ==
    /\ phase = "running" /\ pc[i] = "holding"
    /\ ExceededBudget(total_cost, maxCost)
    /\ pc' = [pc EXCEPT ![i] = "skipped"]
    /\ ret' = [ret EXCEPT ![i] = None]
    /\ sem' = Release(sem)
    /\ completed' = Append(completed, i)
    /\ failed_count' = failed_count + 1
    /\ UNCHANGED << inputs, storevars, tally, cache, disk, costLog, kidx, attempt, used,
                    total_cost, total_tokens, new_entries, cache_hits,
                    phase, exc, out, io, run, prev >>

\* _analyze_one, lines 115-116: budget exhausted, return None and leave the block
BudgetSkip(i) ==
    /\ phase = "running" /\ pc[i] = "holding"
    /\ ExceededBudget(total_cost, maxCost)
    /\ pc' = [pc EXCEPT ![i] = "skipped"]
    /\ ret' = [ret EXCEPT ![i] = None]
    /\ sem' = Release(sem)
    /\ completed' = Append(completed, i)
    /\ UNCHANGED << inputs, storevars, tally, cache, disk, costLog, kidx, attempt, used,
                    counters, phase, exc, out, io, run, prev >>

\* _analyze_one, lines 118-127: prompt built, first provider of _clients called
BeginCalls(i) ==
    /\ phase = "running" /\ pc[i] = "holding"
    /\ ~ExceededBudget(total_cost, maxCost)
    /\ i \notin tsBad
    /\ pc' = [pc EXCEPT ![i] = "calling"]
    /\ kidx' = [kidx EXCEPT ![i] = 1]
    /\ attempt' = [attempt EXCEPT ![i] = 1]
    /\ UNCHANGED << inputs, storevars, tally, cache, disk, costLog, ret, used, completed, sem,
                    counters, phase, exc, out, io, run, prev >>

\* variant: the failure of the last provider is not counted
FailOverUncounted(i) ==
    IF kidx[i] < Len(Keys)
    THEN /\ kidx' = [kidx EXCEPT ![i] = kidx[i] + 1]
         /\ attempt' = [attempt EXCEPT ![i] = 1]
         /\ UNCHANGED << pc, ret, sem, failed_count, completed >>
    ELSE /\ pc' = [pc EXCEPT ![i] = "failed"]
         /\ ret' = [ret EXCEPT ![i] = None]
         /\ kidx' = [kidx EXCEPT ![i] = 0]
         /\ attempt' = [attempt EXCEPT ![i] = 0]
         /\ sem' = Release(sem)
         /\ failed_count' = failed_count
         /\ completed' = Append(completed, i)

\* the except branch of the provider loop (lines 146-153) and what follows it:
\* the next provider of _clients is called, or the loop ends, the slot is
\* released and lines 155-156 count the failure
FailOver(i) ==
    IF kidx[i] < Len(Keys)
    THEN /\ kidx' = [kidx EXCEPT ![i] = kidx[i] + 1]
         /\ attempt' = [attempt EXCEPT ![i] = 1]
         /\ UNCHANGED << pc, ret, sem, failed_count, completed >>
    ELSE /\ pc' = [pc EXCEPT ![i] = "failed"]
         /\ ret' = [ret EXCEPT ![i] = None]
         /\ kidx' = [kidx EXCEPT ![i] = 0]
         /\ attempt' = [attempt EXCEPT ![i] = 0]
         /\ sem' = Release(sem)
         /\ failed_count' = failed_count + 1
         /\ completed' = Append(completed, i)

\* _analyze_one, lines 127-144: the call returned a parsed analysis
CallSucceeds(i) ==
    /\ phase = "running" /\ pc[i] = "calling"
    /\ \E o \in OkOutcomes \cap Allowed(scenario[i], kidx[i], attempt[i]) :
         LET kind == Keys[kidx[i]]
             r == Analysis(i, ConfigOf(chain, kind))
             n == new_entries + 1
         IN /\ IF o.usage # NoUsage
               THEN /\ total_cost' = total_cost + CalcCost(kind, o.usage)
                    /\ total_tokens' = total_tokens + o.usage[1] + o.usage[2]
               ELSE UNCHANGED << total_cost, total_tokens >>
            /\ used' = [used EXCEPT ![i] = o.usage]
            /\ cache' = CacheSet(cache, i, r)
            /\ new_entries' = n
            /\ \E s \in (IF Checkpoint(n) THEN CacheWrites ELSE {"none"}) :
                 /\ disk' = IF s = "none" THEN disk ELSE ApplySave(disk, cache', s)
                 /\ IF s \in {"none", "ok"}
                    THEN /\ pc' = [pc EXCEPT ![i] = "served"]
                         /\ ret' = [ret EXCEPT ![i] = r]
                         /\ attempt' = [attempt EXCEPT ![i] = 0]
                         /\ sem' = Release(sem)
                         /\ completed' = Append(completed, i)
                         /\ UNCHANGED << kidx, failed_count >>
                    ELSE FailOver(i)
    /\ UNCHANGED << inputs, storevars, tally, costLog, cache_hits, phase, exc, out, io, run, prev >>

\* variant: every retried attempt is charged the default rate
CallRetriesCharged(i) ==
    /\ phase = "running" /\ pc[i] = "calling"
    /\ attempt[i] < MaxAttempts
    /\ Transient \in Allowed(scenario[i], kidx[i], attempt[i])
    /\ attempt' = [attempt EXCEPT ![i] = attempt[i] + 1]
    /\ total_cost' = total_cost + DefaultRate
    /\ UNCHANGED << inputs, storevars, tally, cache, disk, costLog, pc, kidx, ret, used, completed, sem,
                    total_tokens, new_entries, cache_hits, failed_count,
                    phase, exc, out, io, run, prev >>

\* _call_api's retry decorator: a TimeoutError or ConnectionError before the
\* third attempt is retried on the same provider
CallRetries(i) ==
    /\ phase = "running" /\ pc[i] = "calling"
    /\ attempt[i] < MaxAttempts
    /\ Transient \in Allowed(scenario[i], kidx[i], attempt[i])
    /\ attempt' = [attempt EXCEPT ![i] = attempt[i] + 1]
    /\ UNCHANGED << inputs, storevars, tally, cache, disk, costLog, pc, kidx, ret, used, completed, sem,
                    counters, phase, exc, out, io, run, prev >>

\* variant: a transient fault is raised to the provider loop at once
RaisesAnyFault(i) ==
    \E o \in Allowed(scenario[i], kidx[i], attempt[i]) : o \in {Error, Transient}

\* the call raised out of _call_api: any other exception, or a transient
\* fault on the last attempt (reraise=True)
Raises(i) ==
    \E o \in Allowed(scenario[i], kidx[i], attempt[i]) :
        \/ o = Error
        \/ o = Transient /\ attempt[i] = MaxAttempts

\* lines 146-153 with a further provider left: continue with it
ProviderFails(i) ==
    /\ phase = "running" /\ pc[i] = "calling"
    /\ kidx[i] < Len(Keys)
    /\ Raises(i)
    /\ FailOver(i)
    /\ UNCHANGED << inputs, storevars, tally, cache, disk, costLog, used,
                    total_cost, total_tokens, new_entries, cache_hits,
                    phase, exc, out, io, run, prev >>

\* lines 146-156 on the last provider: the entry has failed on all of them
AllProvidersFail(i) ==
    /\ phase = "running" /\ pc[i] = "calling"
    /\ kidx[i] = Len(Keys)
    /\ Raises(i)
    /\ FailOver(i)
    /\ UNCHANGED << inputs, storevars, tally, cache, disk, costLog, used,
                    total_cost, total_tokens, new_entries, cache_hits,
                    phase, exc, out, io, run, prev >>

\* AIClient.save_cost_log: the CostRecord of the run
Record ==
    [provider |-> chain[1].provider, model |-> chain[1].model_name,
     new_entries |-> new_entries, cache_hits |-> cache_hits,
     tokens |-> total_tokens, cost_cny |-> Round4(total_cost)]

\* the finally block of AIAnalyzer.analyze (lines 49-51): cache.save(), then
\* save_cost_log(); s1 and s2 are the outcomes of the two writes
FinallyDisk(file, s1) == ApplySave(file, cache, s1)

\* variant: the log is rewritten with the record of this run only
FinallyLogOverwrite(log, s1, s2) == IF s1 = "ok" /\ s2 = "ok" THEN << Record >> ELSE log

\* save_cost_log (lines 216-224): the existing list is read, the record is
\* appended and the whole file is rewritten
FinallyLog(log, s1, s2) == IF s1 = "ok" /\ s2 = "ok" THEN Append(log, Record) ELSE log
\* which writes were made: save_cost_log() is not reached when cache.save() raised
FinallyWrites(s0, s1, s2) ==
    [handler |-> s0, cache |-> s1, log |-> IF s1 = "ok" THEN s2 ELSE "skipped"]

\* every coroutine has returned: gather returns the list, analyze flushes
\* and builds the dict
GatherReturns ==
    /\ phase = "running"
    /\ \A i \in Entries : pc[i] \in Returned
    /\ \E s1 \in CacheWrites, s2 \in LogWrites :
         /\ disk' = FinallyDisk(disk, s1)
         /\ costLog' = FinallyLog(costLog, s1, s2)
         /\ io' = FinallyWrites("none", s1, s2)
         /\ IF s1 = "ok" /\ s2 = "ok"
            THEN /\ phase' = "returned"
                 /\ exc' = "none"
                 /\ out' = BuildResultMap(GatherResults(ret, completed))
            ELSE /\ phase' = "raised"
                 /\ exc' = "OSError"
                 /\ out' = out
    /\ UNCHANGED << inputs, storevars, tally, cache, pc, kidx, attempt, ret, used, completed, sem,
                    counters, run, prev >>

\* the coroutines that have not returned are cancelled; each leaves its
\* `async with self._semaphore` block
Unwind(i, how) ==
    /\ pc' = [j \in Entries |->
                IF j = i THEN how
                ELSE IF pc[j] \in Returned THEN pc[j] ELSE "cancelled"]
    /\ sem' = ReleaseAll(sem, Cardinality(Holders))
    /\ kidx' = [j \in Entries |-> IF pc[j] \in Returned THEN kidx[j] ELSE 0]
    /\ attempt' = [j \in Entries |-> 0]

\* user interrupt while the batch runs: gather is cancelled, the handler of
\* _analyze_batch_async (lines 193-195) saves the cache and re-raises, then
\* the finally block of analyze runs
Cancel ==
    /\ phase = "running"
    /\ Unwind(0, "cancelled")
    /\ \E s0 \in CacheWrites, s1 \in CacheWrites, s2 \in LogWrites :
         /\ disk' = FinallyDisk(ApplySave(disk, cache, s0), s1)
         /\ costLog' = FinallyLog(costLog, s1, s2)
         /\ io' = FinallyWrites(s0, s1, s2)
         /\ exc' = IF s0 = "ok" /\ s1 = "ok" /\ s2 = "ok"
                   THEN "KeyboardInterrupt" ELSE "OSError"
    /\ phase' = "raised"
    /\ UNCHANGED << inputs, storevars, tally, cache, ret, used, completed, counters, out, run, prev >>

\* build_prompt (lines 118-122, outside the try) raises on a timestamp that
\* datetime.fromtimestamp rejects: the exception leaves gather, asyncio.run
\* cancels the other coroutines, the finally block of analyze runs
PromptRaises(i) ==
    /\ phase = "running" /\ pc[i] = "holding"
    /\ ~ExceededBudget(total_cost, maxCost)
    /\ i \in tsBad
    /\ Unwind(i, "raised")
    /\ \E s1 \in CacheWrites, s2 \in LogWrites :
         /\ disk' = FinallyDisk(disk, s1)
         /\ costLog' = FinallyLog(costLog, s1, s2)
         /\ io' = FinallyWrites("none", s1, s2)
         /\ exc' = IF s1 = "ok" /\ s2 = "ok" THEN "PromptError" ELSE "OSError"
    /\ phase' = "raised"
    /\ UNCHANGED << inputs, storevars, tally, cache, ret, used, completed, counters, out, run, prev >>

Next ==
    \/ AnalyzeStart
    \/ \E i \in Entries : Start(i)
    \/ \E i \in Entries : Acquire(i)
    \/ \E i \in Entries : BudgetSkip(i)
    \/ \E i \in Entries : BeginCalls(i)
    \/ \E i \in Entries : CallSucceeds(i)
    \/ \E i \in Entries : CallRetries(i)
    \/ \E i \in Entries : ProviderFails(i)
    \/ \E i \in Entries : AllProvidersFail(i)
    \/ \E i \in Entries : PromptRaises(i)
    \/ GatherReturns
    \/ Cancel

Spec == Init /\ [][Next]_vars

\* what an ended analyze() call leaves behind: the dict it returned, the
\* results its coroutines obtained, the statistics the analyzer exposes, the
\* cache file and the cost log
Outcome ==
    [out |-> out, limit |-> limit,
     skipped |-> \E i \in Entries : pc[i] = "skipped", exc |-> exc,
     got |-> ret, stats |-> <<cache_hits, new_entries, failed_count, total_cost>>,
     file |-> disk, log |-> costLog]

\* ----------------------------------------------- two runs on the same inputs
\* A first analyzer with concurrency 1 runs to completion; a second analyzer
\* is then constructed with a larger concurrency on the same transcriptions,
\* provider chain, ceiling, provider behaviour and initial cache file.
InitPair ==
    /\ chain \in Chains
    /\ limit = 1
    /\ maxCost \in Ceilings
    /\ tsBad \in { {}, {NumEntries} }
    /\ scenario \in [Entries -> Profiles]
    /\ file0 \in InitialFiles
    /\ faulty = TRUE
    /\ cfile = NoCacheFile
    /\ Constructed

SecondRun ==
    /\ phase = "returned" /\ run = "first"
    /\ run' = "second"
    /\ prev' = Outcome
    /\ limit' \in 2..MaxConc
    /\ sem' = limit'
    /\ cache' = Load(file0)
    /\ disk' = file0
    /\ pc' = [i \in Entries |-> "idle"]
    /\ kidx' = [i \in Entries |-> 0]
    /\ attempt' = [i \in Entries |-> 0]
    /\ ret' = [i \in Entries |-> None]
    /\ used' = [i \in Entries |-> NoUsage]
    /\ completed' = << >>
    /\ total_cost' = 0 /\ total_tokens' = 0 /\ new_entries' = 0
    /\ cache_hits' = 0 /\ failed_count' = 0
    /\ phase' = "idle" /\ exc' = "none" /\ out' = EmptyStore /\ io' = NoWrites
    /\ UNCHANGED << chain, maxCost, tsBad, scenario, file0, faulty, costLog, storevars, tally >>

NextPair == Next \/ SecondRun

SpecPair == InitPair /\ [][NextPair]_vars

\* ------------------------------------------------- a later run after a run
\* variant: clear() leaves the analyses in place
CacheClearKeep(mem) == mem

\* AICache.clear on the in-memory analyses
CacheClear(mem) == EmptyStore

\* The file system does not fail here; the first run ends in any way, then
\* either analyze() is called again on the same analyzer or a fresh analyzer
\* is constructed on the cache file and cost log the first run left.
RunProfiles == [Entries -> {"ok", "down"}]

InitRuns ==
    /\ chain \in Chains
    /\ limit \in 1..MaxConc
    /\ maxCost \in Ceilings
    /\ tsBad \in { {}, {NumEntries} }
    /\ scenario \in RunProfiles
    /\ file0 \in InitialFiles
    /\ faulty = FALSE
    /\ cfile = NoCacheFile
    /\ Constructed

\* AIAnalyzer.analyze called again on the same analyzer: analyze_batch starts
\* a new event loop and new coroutines; the cache and the counters of the
\* AIClient are the ones the first call left
AnalyzeAgain ==
    /\ phase = "returned" /\ run = "first"
    /\ run' = "again"
    /\ prev' = Outcome
    /\ phase' = "running"
    /\ pc' = [i \in Entries |-> "new"]
    /\ kidx' = [i \in Entries |-> 0]
    /\ attempt' = [i \in Entries |-> 0]
    /\ ret' = [i \in Entries |-> None]
    /\ used' = [i \in Entries |-> NoUsage]
    /\ completed' = << >>
    /\ exc' = "none" /\ out' = EmptyStore /\ io' = NoWrites
    /\ UNCHANGED << inputs, storevars, tally, cache, disk, costLog, sem, counters >>

\* AIAnalyzer.__init__ of a later process on the same cache_path and cost
\* log: AICache._load, clear() when force_refresh is set, AIClient.__init__
FreshRun(force_refresh) ==
    /\ phase \in {"returned", "raised"} /\ run = "first"
    /\ disk.st # "corrupt"
    /\ run' = IF force_refresh THEN "refresh" ELSE "fresh"
    /\ prev' = Outcome
    /\ cache' = IF force_refresh THEN CacheClear(Load(disk)) ELSE Load(disk)
    /\ disk' = IF force_refresh THEN ApplySave(disk, cache', "ok") ELSE disk
    /\ file0' = disk'
    /\ pc' = [i \in Entries |-> "idle"]
    /\ kidx' = [i \in Entries |-> 0]
    /\ attempt' = [i \in Entries |-> 0]
    /\ ret' = [i \in Entries |-> None]
    /\ used' = [i \in Entries |-> NoUsage]
    /\ completed' = << >>
    /\ sem' = limit
    /\ total_cost' = 0 /\ total_tokens' = 0 /\ new_entries' = 0
    /\ cache_hits' = 0 /\ failed_count' = 0
    /\ phase' = "idle" /\ exc' = "none" /\ out' = EmptyStore /\ io' = NoWrites
    /\ UNCHANGED << chain, limit, maxCost, tsBad, scenario, faulty, costLog, storevars, tally >>

NextRuns ==
    \/ Next
    \/ AnalyzeAgain
    \/ \E force_refresh \in BOOLEAN : FreshRun(force_refresh)

SpecRuns == InitRuns /\ [][NextRuns]_vars

\* ------------------------------------------------ a batch left to finish
\* No interrupt arrives, every timestamp can be formatted and no write fails.
\* The event loop runs every coroutine that can take a step, and every
\* provider call attempt returns or raises: each step of each unit, and the
\* return of gather, is weakly fair.
InitLive ==
    /\ chain \in Chains
    /\ limit \in 1..MaxConc
    /\ maxCost \in Ceilings
    /\ tsBad = {}
    /\ scenario = [i \in Entries |-> "free"]
    /\ file0 \in InitialFiles
    /\ faulty = FALSE
    /\ cfile = NoCacheFile
    /\ Constructed

UnitStep(i) ==
    \/ Start(i)
    \/ Acquire(i)
    \/ BudgetSkip(i)
    \/ BeginCalls(i)
    \/ CallSucceeds(i)
    \/ CallRetries(i)
    \/ ProviderFails(i)
    \/ AllProvidersFail(i)

NextLive ==
    \/ AnalyzeStart
    \/ \E i \in Entries : UnitStep(i)
    \/ GatherReturns

SpecLive ==
    /\ InitLive /\ [][NextLive]_vars
    /\ \A i \in Entries : WF_vars(UnitStep(i))
    /\ WF_vars(GatherReturns)

\* ------------------------------------------------- batches of many entries
\* The store as _analyze_one and analyze change it, counted: the batches hold
\* transcriptions that are not in the store, the primary provider is free of
\* charge and reports no usage, the budget is never reached and no write
\* fails.  A unit either is served (lines 138-144) or fails (lines 155-156);
\* the lock makes lines 139-142 one step, and no other statement touches the
\* store or the file while a batch runs.
InitCheckpoint ==
    /\ chain = <<ZhipuFlash, DeepseekV3>>
    /\ limit = 1
    /\ maxCost = 100000000
    /\ tsBad = {}
    /\ scenario = [i \in Entries |-> "ok"]
    /\ file0 = NoFile
    /\ faulty = FALSE
    /\ cfile = NoCacheFile
    /\ Constructed

\* transcriptions this client has resolved so far
Resolved == new_entries + failed_count

\* analyze is called with a list of n transcriptions
BatchStart ==
    /\ phase \in {"idle", "returned"}
    /\ \E n \in 1..(MaxBatch - Resolved) : todo' = n
    /\ phase' = "running"
    /\ UNCHANGED << inputs, storevars, kept, filed, cache, disk, costLog, pc, kidx, attempt, ret,
                    used, completed, sem, counters, exc, out, io, run, prev >>

\* lines 139-142: cache.set, the count of new entries, the incremental save
UnitServed ==
    /\ phase = "running" /\ todo > 0
    /\ todo' = todo - 1
    /\ kept' = kept + 1
    /\ new_entries' = new_entries + 1
    /\ filed' = IF Checkpoint(new_entries') THEN kept' ELSE filed
    /\ UNCHANGED << inputs, storevars, cache, disk, costLog, pc, kidx, attempt, ret, used,
                    completed, sem, total_cost, total_tokens, cache_hits, failed_count,
                    phase, exc, out, io, run, prev >>

\* lines 155-156: every provider raised, nothing is stored
UnitFailed ==
    /\ phase = "running" /\ todo > 0
    /\ todo' = todo - 1
    /\ failed_count' = failed_count + 1
    /\ UNCHANGED << inputs, storevars, kept, filed, cache, disk, costLog, pc, kidx, attempt, ret,
                    used, completed, sem, total_cost, total_tokens, new_entries, cache_hits,
                    phase, exc, out, io, run, prev >>

\* the finally block of analyze (line 50): cache.save() writes the whole store
BatchEnds ==
    /\ phase = "running" /\ todo = 0
    /\ filed' = kept
    /\ phase' = "returned"
    /\ UNCHANGED << inputs, storevars, todo, kept, cache, disk, costLog, pc, kidx, attempt, ret,
                    used, completed, sem, counters, exc, out, io, run, prev >>

NextCheckpoint ==
    \/ BatchStart
    \/ UnitServed
    \/ UnitFailed
    \/ BatchEnds

SpecCheckpoint == InitCheckpoint /\ [][NextCheckpoint]_vars

\* ----------------------------------------------------- the AICache alone
\* Caches are constructed, written, saved and cleared on one path, one after
\* the other (as in tests/unit/ai/test_cache.py); no batch runs.  The path
\* holds no file at first, or a file that json.load cannot parse.
AlibabaV3 == [provider |-> "alibaba", model_name |-> "deepseek-v3"]
CacheConfigs == {ZhipuFlash, DeepseekV3, AlibabaV3}

batch == << cache, disk, costLog, pc, kidx, attempt, ret, used, completed, sem,
            total_cost, total_tokens, new_entries, cache_hits, failed_count,
            phase, exc, out, io, run, prev >>

InitCache ==
    /\ chain = <<ZhipuFlash, DeepseekV3>>
    /\ limit = 1
    /\ maxCost = 0
    /\ tsBad = {}
    /\ scenario = [i \in Entries |-> "ok"]
    /\ file0 = NoFile
    /\ faulty = FALSE
    /\ cfile \in {NoCacheFile, CorruptCacheFile}
    /\ Constructed

\* AICache._load: a fresh store when the file is missing, else the validated
\* document, with the model and provider the document records
LoadData(file, model, provider) ==
    IF file.st = "nofile" THEN FreshData(model, provider)
    ELSE ValidateDocument(file.doc)

\* AICache.__init__(path, model, provider)
CacheNew(cfg) ==
    /\ IF cfile.st = "corrupt" \/ (cfile.st = "file" /\ ~ValidDocument(cfile.doc))
       THEN /\ cstep' = "raised"
            /\ store' = NoCache
            /\ warned' = FALSE
       ELSE /\ cstep' = "loaded"
            /\ store' = [model |-> cfg.model_name, provider |-> cfg.provider,
                         data |-> LoadData(cfile, cfg.model_name, cfg.provider)]
            /\ warned' = /\ cfile.st = "file"
                         /\ ModelChanged(store'.data.model, cfg.model_name)
    /\ UNCHANGED << inputs, tally, batch, cfile, saved >>

\* AICache.set(id, analysis)
StoreSet(id, r) ==
    /\ cstep \in {"loaded", "set", "saved"}
    /\ store' = [store EXCEPT !.data.analyses = CacheSet(@, id, r)]
    /\ cstep' = "set"
    /\ UNCHANGED << inputs, tally, batch, cfile, warned, saved >>

\* AICache.save()
StoreSave ==
    /\ cstep \in {"loaded", "set", "saved"}
    /\ cfile' = [st |-> "file", doc |-> ModelDump(store.data)]
    /\ saved' = store.data.analyses
    /\ cstep' = "saved"
    /\ UNCHANGED << inputs, tally, batch, store, warned >>

\* AICache.clear(): the analyses are emptied and the store is saved
StoreClear ==
    /\ cstep \in {"loaded", "set", "saved"}
    /\ store' = [store EXCEPT !.data.analyses = CacheClear(@)]
    /\ cfile' = [st |-> "file", doc |-> ModelDump(store'.data)]
    /\ saved' = store'.data.analyses
    /\ cstep' = "saved"
    /\ UNCHANGED << inputs, tally, batch, warned >>

NextCache ==
    \/ \E cfg \in CacheConfigs : CacheNew(cfg)
    \/ \E id \in Entries, r \in Results : StoreSet(id, r)
    \/ StoreSave
    \/ StoreClear

SpecCache == InitCache /\ [][NextCache]_vars

\* ================================================================= claims
\* a provider call attempt of entry i begins in this step
CallStarted(i) ==
    /\ pc'[i] = "calling"
    /\ \/ pc[i] # "calling"
       \/ kidx'[i] # kidx[i]
       \/ attempt'[i] # attempt[i]

\* C1 - cache hit avoids network: when the unit of an entry starts and its id
\* is in the cache, the unit returns the cached value in that step, counts one
\* cache hit, takes no slot, calls no provider and leaves new_entries,
\* failed_count and total_cost as they were.
C1_CacheHitAvoidsNetwork ==
    [][\A i \in Entries :
         (pc[i] = "new" /\ pc'[i] \in {"hit", "acquire"} /\ cache[i] # None)
         => /\ pc'[i] = "hit"
            /\ ret'[i] = cache[i]
            /\ cache_hits' = cache_hits + 1
            /\ new_entries' = new_entries
            /\ failed_count' = failed_count
            /\ total_cost' = total_cost
            /\ sem' = sem
            /\ \A j \in Entries : ~CallStarted(j)]_vars

C1_Witness ==
    \E i \in Entries :
        /\ pc[i] = "hit" /\ ret[i] = Earlier(i) /\ cache_hits = 1
        /\ \E j \in Entries : pc[j] = "calling"

\* C2 - budget short-circuit is a skip, not a failure: an entry that holds a
\* slot and reaches the budget check with total_cost >= ceiling returns absent,
\* releases its slot, starts no provider call and changes none of failed_count,
\* new_entries, cache_hits; with a ceiling of 0 no entry ever calls a provider
\* and failed_count stays 0.
C2_BudgetSkipIsNotFailure ==
    /\ [][\A i \in Entries :
            (pc[i] = "holding" /\ total_cost >= maxCost
               /\ pc'[i] \notin {"holding", "cancelled"})
            => /\ pc'[i] = "skipped"
               /\ ret'[i] = None
               /\ sem' = sem + 1
               /\ failed_count' = failed_count
               /\ new_entries' = new_entries
               /\ cache_hits' = cache_hits
               /\ \A j \in Entries : ~CallStarted(j)]_vars
    /\ [](maxCost = 0 =>
            /\ failed_count = 0
            /\ \A i \in Entries : pc[i] \notin {"calling", "served", "failed"})

C2_Witness ==
    /\ phase = "returned"
    /\ \E i \in Entries : pc[i] = "skipped" /\ out[i] = None
    /\ failed_count = 0

\* C3 (as stated) - circuit breaker: once total_cost has reached the ceiling no
\* further provider call is started for any entry, entries part-way through
\* their fail-over chain included.
C3_NoCallAfterCeiling ==
    [][total_cost >= maxCost => \A i \in Entries : ~CallStarted(i)]_vars

\* C3 (amended) - once total_cost has reached the ceiling, no entry that has
\* not yet passed its budget check starts a provider call; the only calls
\* started from then on are retries and fail-overs of entries that were
\* already calling.
C3_NoNewEntryAfterCeiling ==
    [][total_cost >= maxCost =>
          \A i \in Entries : CallStarted(i) => pc[i] = "calling"]_vars

C3_Witness ==
    /\ maxCost > 0 /\ total_cost >= maxCost
    /\ \E i \in Entries : pc[i] = "served"
    /\ \E j \in Entries : pc[j] = "skipped"

\* C4 - bounded concurrency: the number of entries between slot acquisition
\* and slot release never exceeds the configured concurrency limit.
C4_BoundedConcurrency == Cardinality(Holders) <= limit

C4_Witness ==
    /\ Cardinality(Holders) = limit
    /\ \E i \in Entries : pc[i] = "acquire"
    /\ \E j \in Entries : pc[j] = "calling"

\* C5 - total fail-over: the step in which the last provider of the chain
\* raises for an entry returns absent for it, adds exactly 1 to failed_count,
\* writes nothing to the cache and leaves every other entry and the batch
\* running; failed_count counts exactly the entries that failed on every
\* provider, and such an entry is absent from the returned map.
C5_TotalFailOver ==
    /\ [][\A i \in Entries :
            (pc[i] = "calling" /\ pc'[i] = "failed" /\ new_entries' = new_entries)
            => /\ ret'[i] = None
               /\ failed_count' = failed_count + 1
               /\ cache' = cache /\ disk' = disk
               /\ phase' = "running"
               /\ \A j \in Entries \ {i} : pc'[j] = pc[j] /\ ret'[j] = ret[j]]_vars
    /\ [](failed_count = Cardinality({i \in Entries : pc[i] = "failed"}))
    /\ [](phase = "returned" =>
            \A i \in Entries : pc[i] = "failed" => out[i] = None /\ cache[i] = None)

C5_Witness ==
    /\ phase = "returned"
    /\ \E i \in Entries : pc[i] = "failed" /\ out[i] = None
    /\ \E j \in Entries : pc[j] = "served" /\ out[j] # None
    /\ completed[1] \in {i \in Entries : pc[i] = "failed"}

\* C6 - output alignment: whatever the completion order, the i-th element of
\* the returned list is what the coroutine of the i-th entry returned, so the
\* dict maps each id to the analysis computed (or cached) for that id.
C6_OutputAlignment ==
    phase = "returned" =>
        \A i \in Entries :
            /\ out[i] = ret[i]
            /\ out[i] # None => out[i].id = i

C6_Witness ==
    /\ phase = "returned"
    /\ completed = <<2, 1>> \o [j \in 1..(NumEntries - 2) |-> j + 2]
    /\ out[1] # None /\ out[2] # None /\ out[1] # out[2]

\* C7 (as stated) - order independence: with the same transcriptions, initial
\* cache and deterministic provider responses, the run with concurrency 1 and
\* the run with a larger concurrency return the same dict.
C7_SameOutputAnyLimit ==
    (run = "second" /\ phase = "returned") => out = prev.out

\* C7 (amended) - the two runs return the same dict provided the budget check
\* skips no entry in either of them.
C7_SameOutputWithoutSkips ==
    (/\ run = "second" /\ phase = "returned"
     /\ ~prev.skipped
     /\ \A i \in Entries : pc[i] # "skipped")
    => out = prev.out

C7_Witness ==
    /\ run = "second" /\ phase = "returned"
    /\ prev.limit = 1 /\ limit > 1
    /\ ~prev.skipped /\ \A i \in Entries : pc[i] # "skipped"
    /\ \E i \in Entries : pc[i] = "served"
    /\ new_entries = NumEntries
    /\ out = prev.out
    /\ completed[1] # 1

\* C8 (as stated) - flush on every exit path: when analyze hands control back
\* (returning or raising), the cache save and the cost-log append have both
\* been carried out, also when one of the two writes failed: a save that did
\* not fail left the in-memory store in the file, and an append that did not
\* fail left the run's CostRecord at the end of the log.
C8_FlushOnEveryExit ==
    phase \in {"returned", "raised"} =>
        /\ io.cache # "none"
        /\ io.log \notin {"none", "skipped"}
        /\ io.cache = "ok" => disk = [st |-> "file", analyses |-> cache]
        /\ io.log = "ok" => costLog # << >> /\ costLog[Len(costLog)] = Record

RECURSIVE SumFn(_, _)
SumFn(f, S) ==
    IF S = {} THEN 0
    ELSE LET x == CHOOSE y \in S : TRUE IN f[x] + SumFn(f, S \ {x})

\* tokens and cost (1e-7 CNY) that the successful call of a served entry reported
EntryTokens ==
    [i \in Entries |-> IF used[i] = NoUsage THEN 0 ELSE used[i][1] + used[i][2]]
EntryCost ==
    [i \in Entries |->
        IF used[i] = NoUsage \/ kidx[i] = 0 THEN 0
        ELSE used[i][1] * PricingTable(Keys[kidx[i]]).input
             + used[i][2] * PricingTable(Keys[kidx[i]]).output]

\* C9 - cancellation durability: after an interrupt (with no write failing)
\* the cache file holds the analyses of exactly the entries whose provider
\* call had succeeded, next to what the file held before the run, and the
\* last CostRecord of the log carries their number, their tokens and their
\* cost rounded to 4 decimals.
C9_CancellationDurability ==
    (phase = "raised" /\ exc = "KeyboardInterrupt") =>
        LET S == {i \in Entries : pc[i] = "served"} IN
        /\ disk.st = "file"
        /\ \A i \in Entries :
              disk.analyses[i] = IF i \in S THEN ret[i] ELSE file0.analyses[i]
        /\ \A i \in S : ret[i] # None /\ ret[i].id = i
        /\ costLog # << >>
        /\ costLog[Len(costLog)].new_entries = Cardinality(S)
        /\ costLog[Len(costLog)].tokens = SumFn(EntryTokens, S)
        /\ costLog[Len(costLog)].cost_cny = Round4(SumFn(EntryCost, S))

C9_Witness ==
    /\ phase = "raised" /\ exc = "KeyboardInterrupt"
    /\ \E i \in Entries : pc[i] = "served" /\ used[i] # NoUsage
    /\ \E j \in Entries : pc[j] = "cancelled"
    /\ costLog[Len(costLog)].new_entries = 1
    /\ costLog[Len(costLog)].cost_cny > 0

\* C10 - result map membership: the returned dict holds an id exactly when
\* the entry was a cache hit or was served by a successful provider call of
\* this run; entries that failed on every provider or were skipped by the
\* budget check are left out.
C10_ResultMapMembership ==
    phase = "returned" =>
        \A i \in Entries :
            /\ out[i] # None <=> pc[i] \in {"hit", "served"}
            /\ pc[i] \in {"failed", "skipped"} => out[i] = None

C10_Witness ==
    /\ phase = "returned"
    /\ \E i \in Entries : pc[i] = "hit" /\ out[i] = Earlier(i)
    /\ \E j \in Entries : pc[j] = "failed" /\ out[j] = None

C12_StatsPerRun ==
    (run = "again" /\ phase = "returned") =>
        /\ cache_hits = Cardinality({i \in Entries : pc[i] = "hit"})
        /\ new_entries = Cardinality({i \in Entries : pc[i] = "served"})
        /\ failed_count = Cardinality({i \in Entries : pc[i] = "failed"})
        /\ total_cost = SumFn(EntryCost, {i \in Entries : pc[i] = "served"})

\* C13 - cost monotonicity: total_cost never decreases within a run, and
\* total_cost or total_tokens change only in the step in which a provider
\* call succeeds and reports token usage; retries, failed calls, cache hits,
\* budget skips and successes without usage leave both as they were.
C13_CostMonotone ==
    [][/\ total_cost' >= total_cost
       /\ (total_cost' # total_cost \/ total_tokens' # total_tokens)
             => \E i \in Entries :
                   /\ pc[i] = "calling" /\ pc'[i] = "served"
                   /\ used'[i] # NoUsage
                   /\ new_entries' = new_entries + 1
       /\ \A i \in Entries :
             (\/ pc[i] # pc'[i] /\ pc'[i] \in {"hit", "skipped", "failed"}
              \/ /\ pc[i] = "calling" /\ pc'[i] = "calling"
                 /\ (kidx'[i] # kidx[i] \/ attempt'[i] # attempt[i])
              \/ pc[i] = "calling" /\ pc'[i] = "served" /\ used'[i] = NoUsage)
             => total_cost' = total_cost /\ total_tokens' = total_tokens]_vars

C13_Witness ==
    /\ \E i \in Entries :
          pc[i] = "served" /\ used[i] # NoUsage /\ total_cost = EntryCost[i]
    /\ \E j \in Entries : pc[j] = "calling" /\ attempt[j] = MaxAttempts
    /\ total_cost > 0

\* C14 - cost additivity: total_cost is the sum, over the entries served by a
\* provider call, of prompt tokens * input rate + completion tokens * output
\* rate of the serving provider, and total_tokens the sum of their tokens,
\* in whatever order the calls completed; the CostRecord written on the way
\* out stores that total rounded to 4 decimals.
C14_CostAdditivity ==
    LET S == {i \in Entries : pc[i] = "served"} IN
    /\ total_cost = SumFn(EntryCost, S)
    /\ total_tokens = SumFn(EntryTokens, S)
    /\ io.log = "ok" =>
          /\ costLog[Len(costLog)].cost_cny = Round4(SumFn(EntryCost, S))
          /\ costLog[Len(costLog)].tokens = SumFn(EntryTokens, S)

C14_Witness ==
    /\ phase = "returned"
    /\ \A i \in Entries : pc[i] = "served" /\ used[i] # NoUsage
    /\ \E i, j \in Entries : used[i] # used[j] /\ kidx[i] # kidx[j]
    /\ completed[1] # 1
    /\ costLog[Len(costLog)].cost_cny > 0
    /\ costLog[Len(costLog)].cost_cny # total_cost

\* the rate the stated precedence selects for a configuration: MODEL_PRICING
\* of its model when listed, else PRICING_TABLE of its provider kind, else
\* the default
RateByPrecedence(cfg) ==
    IF ModelListed(cfg.model_name) THEN ModelPricing(cfg.model_name)
    ELSE IF ProviderListed(cfg.provider) THEN PricingTable(cfg.provider)
    ELSE [input |-> DefaultRate, output |-> DefaultRate]

\* C15 (as stated) - rate lookup precedence: the cost added for a successful
\* call that reports usage is computed at the model-specific rate of the
\* serving configuration's model when that model is listed, otherwise at the
\* provider-level rate, otherwise at the default rate.
C15_RatePrecedence ==
    [][\A i \in Entries :
         (pc[i] = "calling" /\ pc'[i] = "served" /\ used'[i] # NoUsage)
         => LET rate == RateByPrecedence(ConfigOf(chain, Keys[kidx[i]]))
            IN total_cost' - total_cost
                 = used'[i][1] * rate.input + used'[i][2] * rate.output]_vars

\* C16 - no redundant calls across runs: when a run has ended (returned or
\* interrupted, no write failing), a fresh analyzer constructed without
\* force_refresh on the cache file it left finds every result obtained in
\* that run in the file; in its run each of those ids is a cache hit with the
\* same value and no provider call is started for it.
C16_NoRedundantCalls ==
    /\ [](run = "fresh" =>
            \A i \in Entries :
                prev.got[i] # None =>
                    /\ file0.st = "file" /\ file0.analyses[i] = prev.got[i]
                    /\ pc[i] \in {"idle", "new", "hit", "cancelled"}
                    /\ pc[i] = "hit" => ret[i] = prev.got[i]
                    /\ kidx[i] = 0 /\ used[i] = NoUsage)
    /\ [][run = "fresh" =>
            \A i \in Entries : prev.got[i] # None => ~CallStarted(i)]_vars

C16_Witness ==
    /\ run = "fresh" /\ phase = "returned"
    /\ prev.exc = "KeyboardInterrupt"
    /\ \E i \in Entries :
          /\ prev.got[i] # None /\ prev.got[i] # Earlier(i)
          /\ pc[i] = "hit" /\ out[i] = prev.got[i]
    /\ \E j \in Entries : prev.got[j] = None /\ pc[j] = "served"
    /\ cache_hits = 1 /\ new_entries = 1

\* C17 - force_refresh: an analyzer constructed with force_refresh starts its
\* run with an empty in-memory store and with the empty store written to the
\* cache file; in its run no entry is returned from the cache, and an entry
\* whose id the file held before is looked up as a miss.
C17_ForceRefresh ==
    /\ [](run = "refresh" =>
            /\ phase = "idle" =>
                  /\ cache = EmptyStore
                  /\ disk = [st |-> "file", analyses |-> EmptyStore]
            /\ \A i \in Entries :
                  /\ pc[i] # "hit"
                  /\ ret[i] # None => pc[i] = "served" /\ kidx[i] > 0
            /\ cache_hits = 0)
    /\ [][run = "refresh" =>
            \A i \in Entries :
                (pc[i] = "new" /\ pc'[i] \notin {"new", "cancelled"})
                => pc'[i] = "acquire"]_vars

C17_Witness ==
    /\ run = "refresh" /\ phase = "returned"
    /\ \E i \in Entries :
          /\ prev.file.analyses[i] = Earlier(i)
          /\ pc[i] = "served" /\ out[i] # Earlier(i)
    /\ \E j \in Entries :
          /\ prev.got[j] # None /\ prev.got[j] # Earlier(j)
          /\ prev.file.analyses[j] = prev.got[j]
          /\ pc[j] = "served"

C19_RoundTrip ==
    /\ cfile.st = "file" => cstep # "raised"
    /\ (cstep = "loaded" /\ cfile.st = "file") =>
          \A id \in Entries : store.data.analyses[id] = saved[id]

C19_Witness ==
    /\ cstep = "loaded" /\ cfile.st = "file"
    /\ \E id \in Entries :
         /\ store.data.analyses[id] = Angry
         /\ cfile.doc.analyses[id] = DumpAnalysis(Angry)
    /\ \E id \in Entries :
         /\ store.data.analyses[id] = None
         /\ cfile.doc.analyses[id] = JsonAbsent

\* C20 (as stated) - load-time mismatch policy: a cache constructed on an
\* existing store whose recorded model or provider differs from the ones it
\* is constructed for has emitted a warning.
C20_WarnOnModelOrProvider ==
    (cstep = "loaded" /\ cfile.st = "file"
       /\ (store.data.model # store.model \/ store.data.provider # store.provider))
    => warned

\* C20 (amended) - a cache constructed on an existing store has emitted a
\* warning exactly when the recorded model differs from the model it is
\* constructed for; every entry of the store is retrievable; the store keeps
\* the recorded model and provider, also when it is saved again.
C20_WarnOnModelChange ==
    /\ []((cstep = "loaded" /\ cfile.st = "file") =>
            /\ warned <=> store.data.model # store.model
            /\ \A id \in Entries : store.data.analyses[id] = saved[id]
            /\ store.data.model = cfile.doc.model.text
            /\ store.data.provider = cfile.doc.provider.text)
    /\ []((cstep = "loaded" /\ cfile.st = "nofile") => ~warned)
    /\ [][cfile.st = "file" =>
            /\ cfile'.st = "file"
            /\ cfile'.doc.model = cfile.doc.model
            /\ cfile'.doc.provider = cfile.doc.provider]_vars

C20_Witness ==
    /\ cstep = "saved" /\ warned
    /\ store.model = "deepseek-v3" /\ store.provider = "deepseek"
    /\ cfile.doc.model.text = "glm-4-flash" /\ cfile.doc.provider.text = "zhipu"
    /\ \E id \in Entries : store.data.analyses[id] = Glad
    /\ \E id \in Entries : store.data.analyses[id] = Neutral

\* C21 (as stated) - linear fail-over: the provider attempts of an entry go
\* to the configurations of the chain in configured order, the k-th provider
\* tried being the k-th configuration of [primary] + fallbacks with its own
\* model, and the entry fails only after every configuration was tried.
C21_LinearFailOver ==
    /\ [](\A i \in Entries :
            pc[i] = "calling" =>
                /\ kidx[i] <= Len(chain)
                /\ ConfigOf(chain, Keys[kidx[i]]) = chain[kidx[i]])
    /\ [][\A i \in Entries :
            (pc[i] = "calling" /\ pc'[i] = "failed") => kidx[i] = Len(chain)]_vars

\* the entry's call attempt ends in this step (and the entry is not cancelled)
AttemptEnds(i) ==
    /\ pc[i] = "calling" /\ pc'[i] # "cancelled"
    /\ << pc[i], kidx[i], attempt[i] >> # << pc'[i], kidx'[i], attempt'[i] >>

\* C22 - retry policy: a transient fault before the third attempt is followed
\* by the next attempt on the same provider; any other exception, or a
\* transient fault on the third attempt, ends the provider's turn: the entry
\* goes to the next provider or fails when none is left; the provider index
\* never goes back, an attempt number never exceeds 3, and the attempts made
\* for an entry number at most 3 times the chain length.
C22_RetryPolicy ==
    /\ [](\A i \in Entries :
            /\ attempt[i] <= 3
            /\ kidx[i] <= Len(chain)
            /\ pc[i] = "calling" => 3 * (kidx[i] - 1) + attempt[i] <= 3 * Len(chain))
    /\ [][\A i \in Entries :
            AttemptEnds(i) =>
                LET o == Respond(scenario[i], kidx[i], attempt[i])
                    next == /\ pc'[i] = "calling" /\ kidx'[i] = kidx[i] + 1
                            /\ attempt'[i] = 1
                    fails == pc'[i] = "failed" /\ kidx[i] = Len(Keys)
                IN /\ (o = Transient /\ attempt[i] < 3)
                        => /\ pc'[i] = "calling" /\ kidx'[i] = kidx[i]
                           /\ attempt'[i] = attempt[i] + 1
                   /\ (o = Error \/ (o = Transient /\ attempt[i] = 3))
                        => next \/ fails
                   /\ o.tag = "ok" => pc'[i] = "served"]_vars

C22_Witness ==
    \E i \in Entries :
        /\ scenario[i] = "down"
        /\ pc[i] = "calling" /\ kidx[i] = 2 /\ attempt[i] = 1
        /\ Len(Keys) = 2

C25_NoLostUpdates ==
    [][LET became(f) == {i \in Entries : pc[i] # f /\ pc'[i] = f}
       IN /\ cache_hits' = cache_hits + Cardinality(became("hit"))
          /\ new_entries' = new_entries + Cardinality(became("served"))
          /\ failed_count' = failed_count + Cardinality(became("failed"))
          /\ total_cost' = total_cost + SumFn(EntryCost', became("served"))
          /\ total_tokens' = total_tokens + SumFn(EntryTokens', became("served"))]_vars

C25_Witness ==
    /\ phase = "returned" /\ limit > 1
    /\ cache_hits = 1 /\ new_entries = 1 /\ total_cost > 0
    /\ completed[1] # 1

\* C26 - slot release: the free slots and the units inside the semaphore
\* block always add up to the configured limit; a step in which units leave
\* the block gives back exactly one slot for each of them; when analyze has
\* ended, by return, exception or interrupt, all slots are free.
C26_SlotRelease ==
    /\ [](sem + Cardinality(Holders) = limit)
    /\ [](phase \in {"returned", "raised"} => sem = limit)
    /\ [][LET left == {i \in Entries : pc[i] \in Holding /\ pc'[i] \notin Holding}
              entered == {i \in Entries : pc[i] \notin Holding /\ pc'[i] \in Holding}
          IN sem' = sem + Cardinality(left) - Cardinality(entered)]_vars

C26_Witness ==
    /\ phase = "raised" /\ exc = "PromptError"
    /\ limit = 2 /\ sem = 2
    /\ \E i \in Entries : pc[i] = "raised"
    /\ \E j \in Entries : pc[j] = "cancelled" /\ attempt[j] = 0

\* C27 (as stated) - failure containment: analyze raises only for a store
\* write error or for an interrupt; no failure met while one entry is
\* processed ends the batch.
C27_FailureContainment ==
    phase = "raised" => exc \in {"OSError", "KeyboardInterrupt"}

\* C28 - cache construction outcomes: a cache constructed where no file
\* exists holds no analysis for any id and records the model and provider it
\* was constructed for, and the construction creates no file; a construction
\* on an unparsable file raises, yields no cache and leaves the file as it is.
C28_ConstructionOutcomes ==
    /\ []((cstep = "loaded" /\ cfile.st = "nofile") =>
            /\ \A id \in Entries : store.data.analyses[id] = None
            /\ store.data.model = store.model
            /\ store.data.provider = store.provider)
    /\ [][cstep' \in {"loaded", "raised"} => cfile' = cfile]_vars
    /\ [](cfile.st = "corrupt" => cstep \in {"none", "raised"} /\ store = NoCache)
    /\ [][(cfile.st = "corrupt" /\ cstep' # cstep) => cstep' = "raised"]_vars

C28_Witness ==
    /\ cstep = "loaded" /\ cfile.st = "nofile"
    /\ store.model = "deepseek-v3" /\ store.provider = "alibaba"
    /\ store.data.provider = "alibaba"

\* C30 - batch termination: once the batch runs, analyze returns; when it has
\* returned every entry has resolved to a result or to absent and every slot
\* is free; every entry waiting for a slot comes to hold one, and every entry
\* calling providers comes to be served or failed.
C30_BatchTermination ==
    /\ (phase = "running") ~> (phase = "returned")
    /\ [](phase = "returned" =>
            \A i \in Entries :
                /\ pc[i] \in {"hit", "skipped", "served", "failed"}
                /\ pc[i] \in {"hit", "served"} <=> out[i] # None)
    /\ \A i \in Entries : (pc[i] = "acquire") ~> (pc[i] = "holding")
    /\ \A i \in Entries : (pc[i] = "calling") ~> (pc[i] \in {"served", "failed"})

C30_Witness ==
    /\ phase = "returned" /\ limit = 1
    /\ \E i \in Entries : pc[i] = "served"
    /\ \E j \in Entries : pc[j] = "failed" /\ completed[1] = j
    /\ sem = limit

RECURSIVE CostBefore(_)
\* total_cost as it was when the n-th coroutine to return had not returned yet
CostBefore(n) ==
    IF n <= 1 THEN 0
    ELSE CostBefore(n - 1)
           + (IF pc[completed[n - 1]] = "served" THEN EntryCost[completed[n - 1]] ELSE 0)

\* served entries whose call succeeded when total_cost had reached the ceiling
LateServed ==
    {i \in Entries :
        /\ pc[i] = "served"
        /\ \E n \in 1..Len(completed) : completed[n] = i /\ CostBefore(n) >= maxCost}

\* C29 - budget overshoot bound: the provider calls that succeed after
\* total_cost has reached the ceiling, together with the calls still in
\* flight at such a time, number at most limit - 1; an entry that takes a
\* slot when total_cost has reached the ceiling is skipped.
C29_OvershootBound ==
    /\ [](Cardinality(LateServed) <= limit - 1)
    /\ [](total_cost >= maxCost /\ maxCost > 0 =>
            Cardinality(LateServed) + Cardinality({i \in Entries : pc[i] = "calling"})
              <= limit - 1)
    /\ [][\A i \in Entries :
            (pc[i] = "holding" /\ total_cost >= maxCost
               /\ pc'[i] \notin {"holding", "cancelled"}) => pc'[i] = "skipped"]_vars

C29_Witness ==
    /\ phase = "returned" /\ limit = 2 /\ maxCost > 0
    /\ Cardinality(LateServed) = 1
    /\ total_cost > maxCost

TypeOK ==
    /\ sem \in 0..limit
    /\ phase \in {"idle", "running", "returned", "raised"}
====
